---- MODULE Spec2Model ----
(***************************************************************************)
(* The outbox/pull reconciliation engine of lib/sync.ts (the second half   *)
(* of src/lib/bus.ts): purgeLegacyArtifactsOnce, pushOutbox, pullServer    *)
(* and syncAll, run against AsyncStorage and the remote `scans` table.     *)
(* Every await of the source is a step of its own, so that a crash, a      *)
(* storage failure or a remote failure can fall between any two of them.   *)
(***************************************************************************)
EXTENDS Integers, Sequences, FiniteSets, TLC

(* ------------------------------ bounds -------------------------------- *)
\* local records the user creates
MaxRec == 2
\* rows other devices insert into the remote table
MaxOther == 1
\* wall-clock ticks
MaxClock == 2

(* --------------------------- values ----------------------------------- *)
\* null / undefined of an optional field, and "no item stored" of getItem
Null == <<>>
\* the one user that can be logged in (session.user.id)
U1 == <<"u", 1>>
\* the tenant the user's membership names
T1 == <<"t", 1>>
\* '1970-01-01T00:00:00.000Z', the fallback of `since`
Epoch == 0

\* the two triggers of attachSyncListeners, each starting a syncAll
Flows == {"net", "app"}

LEGACY_KEYS == {"PENDING_QUEUE", "SYNC_LOCK", "SYNC_IN_PROGRESS", "SYNC_QUARANTINE_LAST"}

\* String(row.id)
StringOf(id) == <<"s", id>>
\* `srv-${idStr}`
SrvOf(idStr) == <<"srv", idStr[2]>>
\* localId / clientRef of the n-th record created on this device
LocalIdOf(n) == <<"loc", n>>
ClientRefOf(n) == <<"ref", n>>
\* client_ref of the k-th row another device inserted
OtherRefOf(k) == <<"oth", k>>

(* ------------------------- sequence helpers --------------------------- *)
\* Array.prototype.reverse
Reverse(s) == [i \in 1..Len(s) |-> s[Len(s) + 1 - i]]

Range(s) == {s[i] : i \in 1..Len(s)}

\* Array.prototype.findIndex(h => h.localId === id); 0 stands for -1
FindIndex(hist, id) ==
  IF \E i \in 1..Len(hist) : hist[i].localId = id
  THEN CHOOSE i \in 1..Len(hist) :
         /\ hist[i].localId = id
         /\ \A j \in 1..(i - 1) : hist[j].localId # id
  ELSE 0

VARIABLES
  \* AsyncStorage (survives a crash)
  outbox,        \* K_OUTBOX: sequence of LocalScan, newest first
  history,       \* K_HISTORY: sequence of LocalScan
  lastPulledAt,  \* K_LASTPULLED_AT: Null or <<t>>
  cleaned,       \* K_LEGACY_CLEANED is set
  legacy,        \* which of LEGACY_KEYS are present
  \* environment
  remote,        \* rows of the remote table `scans`
  clock,         \* wall clock (Date.now)
  session,       \* Null or the logged-in user
  made,          \* number of records created on this device
  healed,        \* from here on the session stays and the remote and the storage answer
  \* one syncAll per trigger: position and locals
  pc,
  work,          \* pushOutbox: `outbox`, the reversed copy it iterates
  idx,           \* pushOutbox: position of `item` in work
  pushed,        \* pushOutbox: pushed
  failures,      \* pushOutbox: failures
  hist,          \* pushOutbox: hist / pullServer: history (the copy read)
  since,         \* pullServer: since
  data,          \* pullServer: data
  added,         \* pullServer: added
  pushRes,       \* value pushOutbox returned
  pullRes,       \* value pullServer returned
  syncRes,       \* how the promise of syncAll settled
  \* history variables of the verification
  pre,           \* the persisted Outbox as the running pushOutbox read it
  insRes,        \* pairs <<localId, what the remote and the storage did to its iteration>>
  qRes,          \* what the query of the running pullServer did
  orphaned,      \* a crash left a remotely accepted record queued, and no pushOutbox returned since
  \* attachSyncListeners
  subs,          \* which of the two listeners is registered
  ev,            \* the event NetInfo or AppState reported last
  \* the event bus
  listeners,     \* listeners[event]: the handlers of the Set, in insertion order
  live,          \* pairs <<event, handler>> registered by bus.on and not unsubscribed since
  unsubs,        \* unsubs[<<event, handler>>]: the functions bus.on returned, not yet called
  emitted,       \* the last bus.emit: <<event, payload>>
  delivered,     \* the calls that emit made: <<handler, payload>>, in order
  \* tenant resolution
  tenantStore,   \* AsyncStorage 'tenantId' (lib/tenantStorage): Null or a tenant id
  memberships,   \* rows of the remote table `memberships` of the user
  ensurePc,      \* resolveTenant.ensureTenantId: position of the running call
  mems,          \* resolveTenant.ensureTenantId: mems, as the query answered
  ensureRes,     \* how the call ended: returned an id or threw
  lastRet,       \* the id the last call that returned has returned
  \* the settings screen
  currentTenantId, \* AsyncStorage 'currentTenantId' (TENANT_KEY): Null or a tenant id
  shown,         \* the screen is mounted
  userState,     \* useState: user
  tenantState,   \* useState: tenantId
  tenantsState,  \* useState: tenants, the ids listed
  loadPc,        \* effect 1 (session and saved tenant): position
  listPc,        \* effect 2 (tenant list and auto-select): position
  seenTenant,    \* effect 2: tenantId as its closure holds it
  listId,        \* effect 2: rows[0].id
  fixPc,         \* effect 3 (ensureTenantId correction): position
  fixT,          \* effect 3: t
  chosen,        \* the id applyTenant / applyManualTenant stored last
  remounted,     \* the screen was mounted again since
  \* the history screen
  rowsState,     \* useState<Row[]>: rows
  scanTable,     \* the user's rows of the remote table as the screen's queries see them
  replies,       \* answers of queries the screen has sent and not yet applied
  notices        \* bus and realtime events on their way to the screen's handlers, oldest first

pers    == <<outbox, history, lastPulledAt, cleaned, legacy>>
env     == <<remote, clock, session, made, healed>>
pushLoc == <<work, idx, pushed, failures, pre, insRes>>
pullLoc == <<since, data, added, qRes>>
results == <<pushRes, pullRes, syncRes>>
\* the sync engine
engine  == <<pers, env, pc, pushLoc, hist, pullLoc, results, orphaned>>
\* the rest of the application
triggers   == <<subs, ev>>
busVars    == <<listeners, live, unsubs, emitted, delivered>>
tenantVars == <<tenantStore, memberships, ensurePc, mems, ensureRes, lastRet>>
settingsVars == <<currentTenantId, shown, userState, tenantState, tenantsState, loadPc,
                  listPc, seenTenant, listId, fixPc, fixT, chosen, remounted>>
historyVars == <<rowsState, scanTable, replies, notices>>
screenVars == <<settingsVars, historyVars>>
apps    == <<triggers, busVars, tenantVars, screenVars>>
vars    == <<engine, apps>>

(* ------------------------- storage keys ------------------------------- *)
K_HISTORY == "history:v1"
K_OUTBOX == "outbox:v1"

\* variant: the watermark is stored under the key of the Outbox
K_LASTPULLED_AT_OutboxKey == K_OUTBOX

K_LASTPULLED_AT == "lastPulledAt:v1"

\* AsyncStorage.setItem(key, value) / writeJson(key, value) on one of the three data keys
SetItem(key, value) ==
  /\ history' = IF key = K_HISTORY THEN value ELSE history
  /\ outbox' = IF key = K_OUTBOX THEN value ELSE outbox
  /\ lastPulledAt' = IF key = K_LASTPULLED_AT THEN value ELSE lastPulledAt

(* ------------------------- result values ------------------------------ *)
\* no value returned yet
NoRes == [n |-> 0, failed |-> Null, reason |-> "unset"]
\* { pushed: 0, reason: 'no-session' }, { pushed: 0 }, { pushed, failed }
PushNoSession == [n |-> 0, failed |-> Null, reason |-> "no-session"]
PushEmpty == [n |-> 0, failed |-> Null, reason |-> "none"]
PushResult(p, fl) == [n |-> p, failed |-> <<Len(fl)>>, reason |-> "none"]
\* { pulled: 0, reason: 'no-session' }, { pulled: 0, reason: 'pull-error' }, { pulled: added }
PullNoSession == [n |-> 0, failed |-> Null, reason |-> "no-session"]
PullError == [n |-> 0, failed |-> Null, reason |-> "pull-error"]
PullResult(a) == [n |-> a, failed |-> Null, reason |-> "none"]

\* the promise of syncAll: pending, resolved with a value, or rejected
Pending == [state |-> "pending", push |-> NoRes, pull |-> NoRes, error |-> FALSE]
Resolved(push, pull) == [state |-> "resolved", push |-> push, pull |-> pull, error |-> FALSE]
\* the catch of syncAll: { push: { pushed: 0 }, pull: { pulled: 0 }, error: true }
Swallowed == [state |-> "resolved", push |-> PushEmpty, pull |-> PullResult(0), error |-> TRUE]
Rejected == [state |-> "rejected", push |-> NoRes, pull |-> NoRes, error |-> FALSE]

(* ---------------------- decisions of the code ------------------------- *)
\* variant: the Outbox is iterated as stored
FifoOrder_AsStored(stored) == stored

\* readJson(K_OUTBOX).reverse(): the order pushOutbox iterates in
FifoOrder(stored) == Reverse(stored)

\* variants: every error counts as success / a duplicate key counts as a failure
TreatedAsSuccess_AnyError(err) == err \in {"23505", "dupmsg", "other"}
TreatedAsSuccess_Never(err) == FALSE

\* code === '23505' || /duplicate key/i.test(msg)
TreatedAsSuccess(err) == err \in {"23505", "dupmsg"}

\* variants: the failed records are written back marked synced / not reversed back
OutboxToWrite_Marked(fails) == Reverse([i \in 1..Len(fails) |-> [fails[i] EXCEPT !.synced = TRUE]])
OutboxToWrite_NoReverse(fails) == fails

\* failures.reverse(): what pushOutbox writes back to K_OUTBOX
OutboxToWrite(fails) == Reverse(fails)

\* variant: every entry of History is marked
MarkSynced_AllEntries(h, i, userId) ==
  [k \in 1..Len(h) |-> [h[k] EXCEPT !.synced = TRUE, !.userId = userId]]

\* hist[idx].synced = true; hist[idx].userId = userId
MarkSynced(h, i, userId) == [h EXCEPT ![i].synced = TRUE, ![i].userId = userId]

\* (await getItem(K_LASTPULLED_AT)) ?? '1970-01-01T00:00:00.000Z'
SinceOf(stored) == IF stored = Null THEN Epoch ELSE stored[1]

\* variant: the error of the query is ignored
AfterQuery_NoReturn(error) == "pullRead"

\* if (error) return { pulled: 0, reason: 'pull-error' }: where pullServer goes after the query
AfterQuery(error) == IF error THEN "done" ELSE "pullRead"

\* new Set(history.filter(h => h.serverId).map(h => h.serverId))
ByServerId(h) == {h[i].serverId : i \in {j \in 1..Len(h) : h[j].serverId # Null}}

\* variant: the check against byServerId is missing
Skipped_Never(known, idStr) == FALSE

\* if (byServerId.has(idStr)) continue
Skipped(known, idStr) == idStr \in known

\* variant: the pulled entry takes the row id as localId and is left unsynced
FromRow_AsLocal(row) ==
  [localId |-> StringOf(row.id), serverId |-> StringOf(row.id),
   userId |-> row.user_id, tenantId |-> row.tenant_id, createdAt |-> row.created_at,
   clientRef |-> SrvOf(StringOf(row.id)), synced |-> FALSE]

\* the LocalScan pullServer builds from a remote row
FromRow(row) ==
  [localId |-> SrvOf(StringOf(row.id)), serverId |-> StringOf(row.id),
   userId |-> row.user_id, tenantId |-> row.tenant_id, createdAt |-> row.created_at,
   clientRef |-> SrvOf(StringOf(row.id)), synced |-> TRUE]

\* for (const row of data) { ... history.push(...) }: the rows appended, in data order
NewRows(h, d) == SelectSeq(d, LAMBDA row : ~Skipped(ByServerId(h), StringOf(row.id)))

Pushed(h, rows) == h \o [i \in 1..Len(rows) |-> FromRow(rows[i])]

\* variant: History is written as merged, without the sort
SortOutcomes_Unsorted(h) == {h}

\* history.sort((a, b) => (a.createdAt < b.createdAt ? 1 : -1)): the comparator never
\* answers 0, so the order of entries with equal createdAt is the engine's choice
SortOutcomes(h) ==
  {p \in {[i \in 1..Len(h) |-> h[f[i]]] : f \in Permutations(1..Len(h))} :
     \A i \in 1..(Len(h) - 1) : p[i].createdAt >= p[i + 1].createdAt}

\* variant: a pull that fetched nothing starts over from the epoch
NewWatermark_ResetWhenEmpty(now, d) == IF d = <<>> THEN <<Epoch>> ELSE <<now>>

\* variant: the watermark is the newest created_at fetched (the rows come newest first)
NewWatermark_MaxCreatedAt(now, d) == IF d = <<>> THEN <<now>> ELSE <<d[1].created_at>>

\* AsyncStorage.setItem(K_LASTPULLED_AT, nowIso())
NewWatermark(now, d) == <<now>>

\* variant: a set flag ends the migrator and skips pushOutbox
AfterFlagRead_ToPull(done) == IF done THEN "pullSession" ELSE "purgeRemove"

\* variant: the flag is read and ignored
AfterFlagRead_Ignored(done) == "purgeRemove"

\* if (done) return: where purgeLegacyArtifactsOnce goes after reading K_LEGACY_CLEANED
AfterFlagRead(done) == IF done THEN "pushSession" ELSE "purgeRemove"

\* variant: the missing session is not noticed
NoSession_Ignored(s) == FALSE

\* if (!session) return { ..., reason: 'no-session' }
NoSession(s) == s = Null

\* variant: multiRemove deletes nothing
MultiRemove_Nothing(present, keys) == present

\* AsyncStorage.multiRemove(keys): the keys still present afterwards
MultiRemove(present, keys) == present \ keys

\* which stages run inside the try of syncAll
InsideTry(stage) == stage \in {"push", "pull"}

(* ------------------------- the remote table --------------------------- *)
RemoteHas(ref) == \E r \in remote : r.client_ref = ref

\* the id the table gives a row: unique per row, here the number of its client_ref
RowIdOf(ref) == IF ref[1] = "ref" THEN ref[2] ELSE MaxRec + ref[2]

\* variant: .gt instead of .gte
QueryOutcomes_Exclusive(s) ==
  LET rows == {r \in remote : r.created_at > s}
      n == Cardinality(rows)
  IN  {q \in [1..n -> rows] :
         /\ \A i, j \in 1..n : i # j => q[i] # q[j]
         /\ \A i \in 1..(n - 1) : q[i].created_at >= q[i + 1].created_at}

\* .gte('created_at', since).order('created_at', { ascending: false })
QueryOutcomes(s) ==
  LET rows == {r \in remote : r.created_at >= s}
      n == Cardinality(rows)
  IN  {q \in [1..n -> rows] :
         /\ \A i, j \in 1..n : i # j => q[i] # q[j]
         /\ \A i \in 1..(n - 1) : q[i].created_at >= q[i + 1].created_at}

\* what an insert with this client_ref can answer: <<error, row stored>>
InsertOutcomes(ref) ==
  IF RemoteHas(ref)
  THEN {<<"23505", FALSE>>, <<"dupmsg", FALSE>>, <<"other", FALSE>>, <<"throw", FALSE>>}
  ELSE {<<"none", TRUE>>, <<"other", TRUE>>, <<"other", FALSE>>, <<"throw", FALSE>>}

(* ------------------------------ Init ---------------------------------- *)
\* how a call of resolveTenant.ensureTenantId ended
NoOutcome == [kind |-> "none", id |-> Null]
Returned(t) == [kind |-> "returned", id |-> t]
Threw == [kind |-> "threw", id |-> Null]

\* the events of the bus that the screens use
Events == {"scan:insert", "scan:delete"}
\* the functions handed to bus.on
Handlers == {"h1", "h2"}

Fresh(v) == [f \in Flows |-> v]

Init ==
  /\ outbox = <<>> /\ history = <<>> /\ lastPulledAt = Null
  /\ cleaned = FALSE /\ legacy = LEGACY_KEYS
  /\ remote = {} /\ clock = 1 /\ session = Null /\ made = 0 /\ healed = FALSE
  /\ pc = Fresh("idle") /\ work = Fresh(<<>>) /\ idx = Fresh(0)
  /\ pushed = Fresh(0) /\ failures = Fresh(<<>>) /\ hist = Fresh(<<>>)
  /\ since = Fresh(Epoch) /\ data = Fresh(<<>>) /\ added = Fresh(0)
  /\ pushRes = Fresh(NoRes) /\ pullRes = Fresh(NoRes) /\ syncRes = Fresh(Pending)
  /\ pre = Fresh(<<>>) /\ insRes = Fresh({}) /\ qRes = Fresh("none")
  /\ orphaned = FALSE
  /\ subs = Fresh(FALSE)
  /\ ev = [source |-> "none", isConnected |-> FALSE, isInternetReachable |-> "null",
           appState |-> "none", heard |-> FALSE]
  /\ listeners = [e \in Events |-> <<>>] /\ live = {}
  /\ unsubs = [x \in Events \X Handlers |-> 0] /\ emitted = Null /\ delivered = <<>>
  /\ tenantStore = Null /\ memberships = {} /\ ensurePc = "idle" /\ mems = <<>>
  /\ ensureRes = NoOutcome /\ lastRet = Null
  /\ currentTenantId = Null /\ shown = FALSE /\ userState = Null /\ tenantState = Null
  /\ tenantsState = {} /\ loadPc = "off" /\ listPc = "off" /\ seenTenant = Null
  /\ listId = Null /\ fixPc = "off" /\ fixT = Null /\ chosen = Null /\ remounted = FALSE
  /\ rowsState = <<>> /\ scanTable = {} /\ replies = {} /\ notices = <<>>

AllIdle == \A f \in Flows : pc[f] = "idle"

(* --------------------------- environment ------------------------------ *)
\* time passes
Tick ==
  /\ clock < MaxClock
  /\ clock' = clock + 1
  /\ UNCHANGED <<pers, remote, session, made, healed, pc, pushLoc, hist, pullLoc,
                 results, orphaned>>
  /\ UNCHANGED apps

\* the session is read where pushOutbox and pullServer start: a sign-in or sign-out at
\* any other moment is the same as one just before the next read
SessionRead == \A f \in Flows : pc[f] \in {"idle", "pushSession", "pullSession"}

Login ==
  /\ session = Null
  /\ SessionRead
  /\ session' = U1
  /\ UNCHANGED <<pers, remote, clock, made, healed, pc, pushLoc, hist, pullLoc,
                 results, orphaned>>
  /\ UNCHANGED apps

Logout ==
  /\ session # Null
  /\ SessionRead
  /\ session' = Null
  /\ UNCHANGED <<pers, remote, clock, made, healed, pc, pushLoc, hist, pullLoc,
                 results, orphaned>>
  /\ UNCHANGED apps

\* a user action: the new record goes to the head of the Outbox and of History; two
\* records are never created in the same instant. The record carries tenant t.
NewScan(t) ==
  [localId |-> LocalIdOf(made + 1), serverId |-> Null, userId |-> Null,
   tenantId |-> t, createdAt |-> clock,
   clientRef |-> ClientRefOf(made + 1), synced |-> FALSE]

Create(t) ==
  /\ AllIdle
  /\ made < MaxRec
  /\ \A i \in 1..Len(history) : history[i].serverId = Null => history[i].createdAt < clock
  /\ LET rec == NewScan(t)
     IN  /\ outbox' = <<rec>> \o outbox
         /\ history' = <<rec>> \o history
  /\ made' = made + 1
  /\ UNCHANGED <<lastPulledAt, cleaned, legacy, remote, clock, session, healed, pc, pushLoc,
                 hist, pullLoc, results, orphaned>>
  /\ UNCHANGED apps

\* the record is created with its tenant known, as the scan screen requires
Enqueue == Create(T1)

\* another device or session pushes a record it created at time t
Others == Cardinality({r \in remote : r.origin = "other"})

OtherInsert ==
  /\ Others < MaxOther
  /\ \E t \in 1..clock :
       remote' = remote \cup
         {[id |-> RowIdOf(OtherRefOf(Others + 1)),
           client_ref |-> OtherRefOf(Others + 1), created_at |-> t,
           user_id |-> U1, tenant_id |-> T1, origin |-> "other"]}
  /\ UNCHANGED <<pers, clock, session, made, healed, pc, pushLoc, hist, pullLoc,
                 results, orphaned>>
  /\ UNCHANGED apps

(* ------------------------------ syncAll ------------------------------- *)
Set(v, f, x) == [v EXCEPT ![f] = x]

\* the locals of pushOutbox and of pullServer when the function is not running
NoPushLocals(f) ==
  /\ work' = Set(work, f, <<>>) /\ idx' = Set(idx, f, 0) /\ pushed' = Set(pushed, f, 0)
  /\ failures' = Set(failures, f, <<>>) /\ pre' = Set(pre, f, <<>>)
  /\ insRes' = Set(insRes, f, {})

NoPullLocals(f) ==
  /\ since' = Set(since, f, Epoch) /\ data' = Set(data, f, <<>>)
  /\ added' = Set(added, f, 0)

\* a trigger fires and syncAll starts; Spec lets one syncAll run at a time
StartSync(f) ==
  /\ AllIdle
  /\ pc' = Set(pc, f, "purgeRead")
  /\ UNCHANGED <<pers, env, pushLoc, hist, pullLoc, results, orphaned>>
  /\ UNCHANGED apps

\* an exception leaves a stage of syncAll: caught by its try, or the promise rejects
Throws(f, stage) ==
  /\ pc' = Set(pc, f, "done")
  /\ syncRes' = Set(syncRes, f, IF InsideTry(stage) THEN Swallowed ELSE Rejected)

\* purgeLegacyArtifactsOnce: const done = await AsyncStorage.getItem(K_LEGACY_CLEANED)
PurgeRead(f) ==
  /\ pc[f] = "purgeRead"
  /\ \/ /\ Throws(f, "purge")
     \/ /\ pc' = Set(pc, f, AfterFlagRead(cleaned))
        /\ UNCHANGED syncRes
  /\ UNCHANGED <<pers, env, pushLoc, hist, pullLoc, pushRes, pullRes, orphaned>>
  /\ UNCHANGED apps

\* await AsyncStorage.multiRemove(LEGACY_KEYS)
PurgeRemove(f) ==
  /\ pc[f] = "purgeRemove"
  /\ \/ /\ Throws(f, "purge")
        /\ UNCHANGED legacy
     \/ /\ legacy' = MultiRemove(legacy, LEGACY_KEYS)
        /\ pc' = Set(pc, f, "purgeSet")
        /\ UNCHANGED syncRes
  /\ UNCHANGED <<outbox, history, lastPulledAt, cleaned, env, pushLoc, hist, pullLoc,
                 pushRes, pullRes, orphaned>>
  /\ UNCHANGED apps

\* await AsyncStorage.setItem(K_LEGACY_CLEANED, '1')
PurgeSet(f) ==
  /\ pc[f] = "purgeSet"
  /\ \/ /\ Throws(f, "purge")
        /\ UNCHANGED cleaned
     \/ /\ cleaned' = TRUE
        /\ pc' = Set(pc, f, "pushSession")
        /\ UNCHANGED syncRes
  /\ UNCHANGED <<outbox, history, lastPulledAt, legacy, env, pushLoc, hist, pullLoc,
                 pushRes, pullRes, orphaned>>
  /\ UNCHANGED apps

(* ----------------------------- pushOutbox ----------------------------- *)
\* const session = ...; if (!session) return { pushed: 0, reason: 'no-session' }
PushSession(f) ==
  /\ pc[f] = "pushSession"
  /\ IF NoSession(session)
     THEN /\ pushRes' = Set(pushRes, f, PushNoSession)
          /\ pc' = Set(pc, f, "pullSession")
     ELSE /\ pc' = Set(pc, f, "pushRead")
          /\ UNCHANGED pushRes
  /\ UNCHANGED <<pers, env, pushLoc, hist, pullLoc, pullRes, syncRes, orphaned>>
  /\ UNCHANGED apps

\* const outbox = (await readJson(K_OUTBOX, [])).reverse();
\* if (outbox.length === 0) return { pushed: 0 }
PushRead(f) ==
  /\ pc[f] = "pushRead"
  /\ \/ /\ Throws(f, "push")
        /\ UNCHANGED <<work, idx, pushRes, pre>>
     \/ /\ work' = Set(work, f, FifoOrder(outbox))
        /\ pre' = Set(pre, f, outbox)
        /\ IF Len(outbox) = 0
           THEN /\ pushRes' = Set(pushRes, f, PushEmpty)
                /\ pc' = Set(pc, f, "pullSession")
                /\ UNCHANGED idx
           ELSE /\ idx' = Set(idx, f, 1)
                /\ pc' = Set(pc, f, "pushItem")
                /\ UNCHANGED pushRes
        /\ UNCHANGED syncRes
  /\ UNCHANGED <<pers, env, pushed, failures, insRes, hist, pullLoc, pullRes, orphaned>>
  /\ UNCHANGED apps

\* the end of one iteration of `for (const item of outbox)`
NextItem(f) ==
  IF idx[f] < Len(work[f])
  THEN /\ idx' = Set(idx, f, idx[f] + 1)
       /\ pc' = Set(pc, f, "pushItem")
  ELSE /\ pc' = Set(pc, f, "pushWrite")
       /\ UNCHANGED idx

\* what became of the iteration for localId id; "notenant" says that its tenant lookup
\* answered null, and stays noted whatever the iteration does next
Noting(f, id, hows) ==
  {p \in insRes[f] : p[1] # id \/ p[2] = "notenant"} \cup {<<id, h>> : h \in hows}

Noted(f, id, how) == Noting(f, id, {how})

\* variant: the first failure ends the loop
FailWith_Abort(f, hows) ==
  /\ failures' = Set(failures, f, Append(failures[f], work[f][idx[f]]))
  /\ insRes' = Set(insRes, f, Noting(f, work[f][idx[f]].localId, hows))
  /\ pc' = Set(pc, f, "pushWrite")
  /\ UNCHANGED idx

\* failures.push(item), by the else branch or by the catch
FailWith(f, hows) ==
  /\ failures' = Set(failures, f, Append(failures[f], work[f][idx[f]]))
  /\ insRes' = Set(insRes, f, Noting(f, work[f][idx[f]].localId, hows))
  /\ NextItem(f)

Fail(f, how) == FailWith(f, {how})

\* the note an iteration leaves about the tenant it resolved
Lookup(tenantId) == IF tenantId = Null THEN {"notenant"} ELSE {}

\* const tenantId = item.tenantId ?? (await ensureTenantId(userId));
\* const { error } = await supabase.from('scans').insert(row);
PushItem(f) ==
  /\ pc[f] = "pushItem"
  /\ LET item == work[f][idx[f]] IN
     \E tenantId \in (IF item.tenantId # Null THEN {item.tenantId} ELSE {T1, Null}) :
     \E o \in InsertOutcomes(item.clientRef) :
       /\ remote' = IF o[2]
                    THEN remote \cup {[id |-> RowIdOf(item.clientRef), client_ref |-> item.clientRef,
                                       created_at |-> item.createdAt, user_id |-> U1,
                                       tenant_id |-> tenantId, origin |-> "own"]}
                    ELSE remote
       /\ IF o[1] = "throw"
          THEN FailWith(f, {"throw"} \cup Lookup(tenantId))
          ELSE IF o[1] = "none" \/ TreatedAsSuccess(o[1])
          THEN /\ pc' = Set(pc, f, "pushMarkRead")
               /\ insRes' = Set(insRes, f, Noting(f, item.localId,
                                  {IF o[1] = "none" THEN "ok" ELSE "dup"} \cup Lookup(tenantId)))
               /\ UNCHANGED <<failures, idx>>
          ELSE FailWith(f, {IF o[1] = "other" THEN "err" ELSE "dup"} \cup Lookup(tenantId))
  /\ UNCHANGED <<pers, clock, session, made, healed, work, pushed, pre, hist, pullLoc,
                 results, orphaned>>
  /\ UNCHANGED apps

\* const hist = await readJson(K_HISTORY, []); const idx = hist.findIndex(...)
PushMarkRead(f) ==
  /\ pc[f] = "pushMarkRead"
  /\ \/ /\ Fail(f, "throw")
        /\ UNCHANGED <<hist, pushed>>
     \/ /\ IF FindIndex(history, work[f][idx[f]].localId) > 0
           THEN /\ hist' = Set(hist, f, history)
                /\ pc' = Set(pc, f, "pushMarkWrite")
                /\ UNCHANGED <<idx, pushed>>
           ELSE /\ pushed' = Set(pushed, f, pushed[f] + 1)
                /\ NextItem(f)
                /\ UNCHANGED hist
        /\ UNCHANGED <<failures, insRes>>
  /\ UNCHANGED <<pers, env, work, pre, pullLoc, results, orphaned>>
  /\ UNCHANGED apps

\* hist[idx].synced = true; hist[idx].userId = userId; await writeJson(K_HISTORY, hist);
\* pushed++
PushMarkWrite(f) ==
  /\ pc[f] = "pushMarkWrite"
  /\ hist' = Set(hist, f, <<>>)
  /\ \/ /\ Fail(f, "throw")
        /\ UNCHANGED <<history, outbox, lastPulledAt, pushed>>
     \/ /\ SetItem(K_HISTORY,
                   MarkSynced(hist[f], FindIndex(hist[f], work[f][idx[f]].localId), U1))
        /\ pushed' = Set(pushed, f, pushed[f] + 1)
        /\ NextItem(f)
        /\ UNCHANGED <<failures, insRes>>
  /\ UNCHANGED <<cleaned, legacy, env, work, pre, pullLoc, results, orphaned>>
  /\ UNCHANGED apps

\* await writeJson(K_OUTBOX, failures.reverse()); return { pushed, failed: failures.length }
PushWrite(f) ==
  /\ pc[f] = "pushWrite"
  /\ \/ /\ Throws(f, "push")
        /\ NoPushLocals(f)
        /\ UNCHANGED <<history, outbox, lastPulledAt, pushRes>>
     \/ /\ SetItem(K_OUTBOX, OutboxToWrite(failures[f]))
        /\ pushRes' = Set(pushRes, f, PushResult(pushed[f], failures[f]))
        /\ pc' = Set(pc, f, "pullSession")
        /\ UNCHANGED <<syncRes, pushLoc>>
  /\ UNCHANGED <<cleaned, legacy, env, hist, pullLoc, pullRes, orphaned>>
  /\ UNCHANGED apps

(* ----------------------------- pullServer ----------------------------- *)
\* syncAll returns { push, pull }
Returns(f, pull) ==
  /\ pullRes' = Set(pullRes, f, pull)
  /\ pc' = Set(pc, f, "done")
  /\ syncRes' = Set(syncRes, f, Resolved(pushRes[f], pull))

\* const session = ...; if (!session) return { pulled: 0, reason: 'no-session' }
PullSession(f) ==
  /\ pc[f] = "pullSession"
  /\ NoPushLocals(f)
  /\ IF NoSession(session)
     THEN Returns(f, PullNoSession)
     ELSE /\ pc' = Set(pc, f, "pullSince")
          /\ UNCHANGED <<pullRes, syncRes>>
  /\ orphaned' = FALSE
  /\ UNCHANGED <<pers, env, hist, pullLoc, pushRes>>
  /\ UNCHANGED apps

\* const since = (await AsyncStorage.getItem(K_LASTPULLED_AT)) ?? '1970-01-01T00:00:00.000Z'
PullSince(f) ==
  /\ pc[f] = "pullSince"
  /\ \/ /\ Throws(f, "pull")
        /\ UNCHANGED since
     \/ /\ since' = Set(since, f, SinceOf(lastPulledAt))
        /\ pc' = Set(pc, f, "pullQuery")
        /\ UNCHANGED syncRes
  /\ UNCHANGED <<pers, env, pushLoc, hist, data, added, qRes, pushRes, pullRes, orphaned>>
  /\ UNCHANGED apps

\* const { data, error } = await supabase.from('scans').select(...).gte(...).order(...);
\* if (error) return { pulled: 0, reason: 'pull-error' }
PullQuery(f) ==
  /\ pc[f] = "pullQuery"
  /\ \/ /\ qRes' = Set(qRes, f, "error")
        /\ IF AfterQuery(TRUE) = "done"
           THEN /\ Returns(f, PullError)
                /\ since' = Set(since, f, Epoch)
           ELSE /\ pc' = Set(pc, f, AfterQuery(TRUE))
                /\ UNCHANGED <<pullRes, syncRes, since>>
        /\ UNCHANGED data
     \/ /\ qRes' = Set(qRes, f, "rows")
        /\ \E q \in QueryOutcomes(since[f]) : data' = Set(data, f, q)
        /\ pc' = Set(pc, f, AfterQuery(FALSE))
        /\ UNCHANGED <<pullRes, syncRes, since>>
  /\ UNCHANGED <<pers, env, pushLoc, hist, added, pushRes, orphaned>>
  /\ UNCHANGED apps

\* const history = await readJson(K_HISTORY, [])
PullRead(f) ==
  /\ pc[f] = "pullRead"
  /\ \/ /\ Throws(f, "pull")
        /\ NoPullLocals(f)
        /\ UNCHANGED hist
     \/ /\ hist' = Set(hist, f, history)
        /\ pc' = Set(pc, f, "pullWrite")
        /\ UNCHANGED <<syncRes, since, data, added>>
  /\ UNCHANGED <<pers, env, pushLoc, qRes, pushRes, pullRes, orphaned>>
  /\ UNCHANGED apps

\* the merge loop, history.sort(...) and await writeJson(K_HISTORY, history)
PullWrite(f) ==
  /\ pc[f] = "pullWrite"
  /\ hist' = Set(hist, f, <<>>)
  /\ LET rows == NewRows(hist[f], data[f]) IN
     \/ /\ Throws(f, "pull")
        /\ NoPullLocals(f)
        /\ UNCHANGED <<history, outbox, lastPulledAt>>
     \/ /\ \E sorted \in SortOutcomes(Pushed(hist[f], rows)) : SetItem(K_HISTORY, sorted)
        /\ added' = Set(added, f, Len(rows))
        /\ pc' = Set(pc, f, "pullMark")
        /\ UNCHANGED <<syncRes, since, data>>
  /\ UNCHANGED <<cleaned, legacy, env, pushLoc, qRes, pushRes, pullRes, orphaned>>
  /\ UNCHANGED apps

\* await AsyncStorage.setItem(K_LASTPULLED_AT, nowIso()); return { pulled: added }
PullMark(f) ==
  /\ pc[f] = "pullMark"
  /\ NoPullLocals(f)
  /\ \/ /\ Throws(f, "pull")
        /\ UNCHANGED <<history, outbox, lastPulledAt, pullRes>>
     \/ /\ SetItem(K_LASTPULLED_AT, NewWatermark(clock, data[f]))
        /\ Returns(f, PullResult(added[f]))
  /\ UNCHANGED <<cleaned, legacy, env, pushLoc, hist, qRes, pushRes, orphaned>>
  /\ UNCHANGED apps

\* the caller has seen how the promise of syncAll settled
Finish(f) ==
  /\ pc[f] = "done"
  /\ pc' = Set(pc, f, "idle")
  /\ pushRes' = Set(pushRes, f, NoRes) /\ pullRes' = Set(pullRes, f, NoRes)
  /\ syncRes' = Set(syncRes, f, Pending) /\ qRes' = Set(qRes, f, "none")
  /\ UNCHANGED <<pers, env, pushLoc, hist, since, data, added, orphaned>>
  /\ UNCHANGED apps

\* the process dies and restarts: AsyncStorage and the remote table stay, the rest is gone
Crash ==
  /\ \E f \in Flows : pc[f] \notin {"idle", "done"}
  /\ pc' = Fresh("idle") /\ work' = Fresh(<<>>) /\ idx' = Fresh(0)
  /\ pushed' = Fresh(0) /\ failures' = Fresh(<<>>) /\ hist' = Fresh(<<>>)
  /\ since' = Fresh(Epoch) /\ data' = Fresh(<<>>) /\ added' = Fresh(0)
  /\ pushRes' = Fresh(NoRes) /\ pullRes' = Fresh(NoRes) /\ syncRes' = Fresh(Pending)
  /\ pre' = Fresh(<<>>) /\ insRes' = Fresh({}) /\ qRes' = Fresh("none")
  /\ orphaned' = (orphaned \/ \E i \in 1..Len(outbox) : RemoteHas(outbox[i].clientRef))
  /\ UNCHANGED <<pers, remote, clock, session, made, healed>>
  /\ UNCHANGED apps

\* a started syncAll goes on
Running(f) ==
  \/ PurgeRead(f) \/ PurgeRemove(f) \/ PurgeSet(f)
  \/ PushSession(f) \/ PushRead(f) \/ PushItem(f) \/ PushMarkRead(f) \/ PushMarkWrite(f)
  \/ PushWrite(f)
  \/ PullSession(f) \/ PullSince(f) \/ PullQuery(f) \/ PullRead(f) \/ PullWrite(f)
  \/ PullMark(f)
  \/ Finish(f)

SyncStep(f) ==
  \/ StartSync(f)
  \/ Running(f)

\* every trigger runs the same syncAll; under Spec one syncAll runs at a time
Next ==
  \/ Tick \/ Login \/ Logout \/ Enqueue \/ OtherInsert \/ Crash
  \/ SyncStep("net")

Spec == Init /\ [][Next]_vars

(* ------------- the triggers keep coming and the faults end ------------ *)
\* the point from which a session exists and inserts, queries and storage calls answer
Heal ==
  /\ ~healed
  /\ session # Null
  /\ healed' = TRUE
  /\ UNCHANGED <<pers, remote, clock, session, made, pc, pushLoc, hist, pullLoc,
                 results, orphaned>>
  /\ UNCHANGED apps

\* a step of syncAll in which nothing threw, no insert met an error other than duplicate
\* key and the query did not fail
NoFault(f) ==
  /\ syncRes'[f].error => syncRes[f].error
  /\ syncRes'[f].state = "rejected" => syncRes[f].state = "rejected"
  /\ \A p \in insRes'[f] : p[2] \in {"err", "throw"} => p \in insRes[f]
  /\ qRes'[f] = "error" => qRes[f] = "error"

LiveStep(f) == SyncStep(f) /\ (healed => NoFault(f))

NextLive ==
  \/ Tick \/ Login \/ Enqueue \/ Heal
  \/ (~healed /\ Logout)
  \/ (~healed /\ Crash)
  \/ LiveStep("net")

\* every event of NetInfo and AppState starts a syncAll, and a started syncAll runs on
SpecLive == Init /\ [][NextLive]_vars /\ WF_vars(LiveStep("net"))

(* ------------------ a record created while a syncAll runs -------------- *)
\* the user action of Create, taken while syncAll is between two of its awaits: each of
\* its two writes is a read-modify-write of its own that completes at once
Produce ==
  /\ ~AllIdle
  /\ made < MaxRec
  /\ \A i \in 1..Len(history) : history[i].serverId = Null => history[i].createdAt < clock
  /\ outbox' = <<NewScan(T1)>> \o outbox
  /\ history' = <<NewScan(T1)>> \o history
  /\ made' = made + 1
  /\ UNCHANGED <<lastPulledAt, cleaned, legacy, remote, clock, session, healed, pc, pushLoc,
                 hist, pullLoc, results, orphaned>>
  /\ UNCHANGED apps

NextAppend ==
  \/ Tick \/ Login \/ Enqueue \/ Produce
  \/ SyncStep("net")

SpecAppend == Init /\ [][NextAppend]_vars

(* ------------------- records created without a tenant ----------------- *)
\* the record is created before the tenant is known: pushOutbox asks the memberships
EnqueueBare == Create(Null)

NextTenant ==
  \/ Tick \/ Login \/ Enqueue \/ EnqueueBare
  \/ SyncStep("net")

SpecTenant == Init /\ [][NextTenant]_vars

(* ---------------------- two triggers, two syncAll ---------------------- *)
\* a listener of attachSyncListeners fires: syncAll().catch(() => {}), whatever else runs
Trigger(f) ==
  /\ pc[f] = "idle"
  /\ pc' = Set(pc, f, "purgeRead")
  /\ UNCHANGED <<pers, env, pushLoc, hist, pullLoc, results, orphaned>>
  /\ UNCHANGED apps

NextBoth ==
  \/ Login \/ Enqueue
  \/ Trigger("net") \/ Trigger("app")
  \/ SyncStep("net") \/ SyncStep("app")

SpecBoth == Init /\ [][NextBoth]_vars

(* ============================ properties ============================== *)
\* clientRefs of the records that were ever put in the Outbox
EverQueued == {ClientRefOf(n) : n \in 1..made}

OutboxRefs == {outbox[i].clientRef : i \in 1..Len(outbox)}

\* the records the running pushOutbox read whose iteration ended as `how` says
Ended(f, how) == {r \in Range(pre[f]) : \E h \in how : <<r.localId, h>> \in insRes[f]}

\* pushOutbox of f has returned a count and pullServer has not started
PushReturned(f) == pc[f] = "pullSession" /\ pushRes[f].failed # Null

HistoryWith(ref) == {i \in 1..Len(history) : history[i].clientRef = ref}

(* C1: a record leaves the persisted Outbox only in a step of a pushOutbox whose insert  *)
(* for it answered success or duplicate key; so every record that was ever queued is,    *)
(* at all times, still in the Outbox or in the remote table under its clientRef --       *)
(* whatever the remote, the storage and crashes do.                                      *)
C1_Kept == \A c \in EverQueued : c \in OutboxRefs \/ RemoteHas(c)

C1_Leaves ==
  \A c \in OutboxRefs :
    c \notin {outbox'[i].clientRef : i \in 1..Len(outbox')} =>
      \E f \in Flows : \E r \in Ended(f, {"ok", "dup"}) : r.clientRef = c

C1_NoLossOfUnconfirmed == []C1_Kept /\ [][C1_Leaves]_vars

\* after a crash, a push has removed a record the remote holds
C1_Witness ==
  /\ orphaned /\ PushReturned("net")
  /\ \E c \in EverQueued : c \notin OutboxRefs /\ RemoteHas(c)

(* C2: when the insert of a queued record answers duplicate key (the remote accepted it  *)
(* in a run that died before the Outbox was rewritten), pushOutbox counts it as pushed,  *)
(* removes it from the Outbox, History holds exactly one entry with its clientRef and    *)
(* that entry is synced, and the remote table holds exactly one row with that clientRef. *)
C2_IdempotentPush ==
  \A f \in Flows : PushReturned(f) =>
    \A r \in Ended(f, {"dup"}) :
      /\ r \notin Range(outbox)
      /\ pushRes[f].n = Cardinality(Ended(f, {"ok", "dup"}))
      /\ Cardinality(HistoryWith(r.clientRef)) = 1
      /\ \A i \in HistoryWith(r.clientRef) : history[i].synced
      /\ Cardinality({row \in remote : row.client_ref = r.clientRef}) = 1

\* the run after the crash got a duplicate key for a record
C2_Witness == orphaned /\ PushReturned("net") /\ Ended("net", {"dup"}) # {}

(* C3: after a pushOutbox over N records of which M met a non-duplicate error or an      *)
(* exception, the persisted Outbox holds exactly those M records, each equal to what was *)
(* read, and exactly the N - M others are gone.                                          *)
C3_PartialFailure ==
  \A f \in Flows : PushReturned(f) =>
    /\ Range(outbox) = Ended(f, {"err", "throw"})
    /\ Len(outbox) = Cardinality(Ended(f, {"err", "throw"}))
    /\ Len(pre[f]) - Len(outbox) = Cardinality(Ended(f, {"ok", "dup"}))

\* one of two records failed
C3_Witness ==
  /\ PushReturned("net") /\ Len(pre["net"]) = 2
  /\ Cardinality(Ended("net", {"err", "throw"})) = 1

(* C4: after pushOutbox returns, the persisted Outbox is the Outbox it read with the     *)
(* confirmed records struck out: the failed ones, in their stored order.                 *)
C4_FailedInOrder ==
  \A f \in Flows : PushReturned(f) =>
    outbox = SelectSeq(pre[f], LAMBDA r : r \in Ended(f, {"err", "throw"}))

\* both of two records failed
C4_Witness ==
  /\ PushReturned("net") /\ Len(pre["net"]) = 2
  /\ Cardinality(Ended("net", {"err", "throw"})) = 2

(* C5: History never holds two entries with the same non-null serverId.                  *)
C5_PullDedup ==
  \A i, j \in 1..Len(history) :
    (i # j /\ history[i].serverId # Null) => history[i].serverId # history[j].serverId

\* a pull fetched a row History already held, and merged
C5_Witness == pc["net"] = "pullMark" /\ added["net"] < Len(data["net"])

(* C6: History holds one entry per logical record: a remote row is represented by at     *)
(* most one entry, be it the local entry with the row's client_ref or the pulled entry   *)
(* with the row's id.                                                                    *)
C6_OneEntryPerRecord ==
  \A row \in remote :
    Cardinality({i \in 1..Len(history) :
                   \/ history[i].clientRef = row.client_ref
                   \/ history[i].serverId = StringOf(row.id)}) <= 1

(* C7: the persisted Pull Watermark never decreases, whatever way a pullServer ends.     *)
WmOrd(w) == IF w = Null THEN -1 ELSE w[1]

C8_Returned == \A f \in Flows : (pc[f] = "done" /\ qRes[f] = "error") => pullRes[f] = PullError

C8_Untouched ==
  \A f \in Flows : qRes'[f] = "error" => (history' = history /\ lastPulledAt' = lastPulledAt)

C8_PullFailureNoChange == []C8_Returned /\ [][C8_Untouched]_vars

\* the failed query would have fetched a row History lacks
C8_Witness ==
  /\ pc["net"] = "done" /\ qRes["net"] = "error"
  /\ \E row \in remote : StringOf(row.id) \notin ByServerId(history)

(* C9: no record of another device is skipped for good: a row of another device whose    *)
(* created_at lies below the Pull Watermark (so that no later query returns it) is in    *)
(* History.                                                                              *)
C9_NoRecordSkipped ==
  \A row \in remote :
    (row.origin = "other" /\ lastPulledAt # Null /\ row.created_at < lastPulledAt[1])
      => StringOf(row.id) \in ByServerId(history)

(* C10: the promise of syncAll is never rejected, whichever stage fails.                 *)
C10_NeverRejects == \A f \in Flows : syncRes[f].state # "rejected"

\* the positions of a syncAll that lie inside pushOutbox
PushStages == {"pushSession", "pushRead", "pushItem", "pushMarkRead", "pushMarkWrite", "pushWrite"}

(* C11: whenever pushOutbox of a running syncAll finishes -- returning a count, returning *)
(* no-session or throwing -- the next thing that syncAll does is to start pullServer.     *)
C11_PullAfterPush ==
  [][\A f \in Flows :
       (pc[f] \in PushStages /\ pc'[f] \notin (PushStages \cup {"idle"}))
         => pc'[f] = "pullSession"]_vars

(* C12: once the flag SYNC_CLEANED_v1 is set it stays set, and no later syncAll reaches   *)
(* the multiRemove or the setItem of purgeLegacyArtifactsOnce: no legacy key is deleted.  *)
C12_MigratorOnce ==
  [][cleaned => /\ cleaned'
                /\ legacy' = legacy
                /\ \A f \in Flows : pc'[f] \notin {"purgeRemove", "purgeSet"}]_vars

\* a syncAll that started after a whole earlier pass has gone through the migrator
C12_Witness == cleaned /\ lastPulledAt # Null /\ pc["net"] = "pushSession"

\* the syncAll invocations that have started and not settled
InFlight == {f \in Flows : pc[f] \notin {"idle", "done"}}

(* C13: at most one syncAll is in flight at any time: a trigger that arrives while a      *)
(* syncAll runs starts no second one.                                                     *)
C13_OneInFlight == Cardinality(InFlight) <= 1

(* C14: a record created while a syncAll runs is not lost: it stays in the persisted      *)
(* Outbox until the remote table holds it, and its History entry stays in History.        *)
C14_AppendedKept ==
  \A n \in 1..made :
    /\ ClientRefOf(n) \in OutboxRefs \/ RemoteHas(ClientRefOf(n))
    /\ HistoryWith(ClientRefOf(n)) # {}

(* C15: without a session, pushOutbox is the one step that returns { pushed: 0, reason:   *)
(* 'no-session' }: it inserts nothing into the remote table and writes neither Outbox,    *)
(* History, Pull Watermark, flag nor legacy keys, whatever the Outbox holds.              *)
C15_NoSessionPush ==
  [][\A f \in Flows :
       (pc[f] = "pushSession" /\ session = Null /\ pc'[f] \notin {"pushSession", "idle"})
         => /\ pushRes'[f] = PushNoSession
            /\ pc'[f] = "pullSession"
            /\ pers' = pers
            /\ remote' = remote]_vars

\* pushOutbox has returned no-session over an Outbox that holds a record
C15_Witness ==
  pc["net"] = "pullSession" /\ pushRes["net"] = PushNoSession /\ Len(outbox) > 0

(* C16: a record without tenantId whose membership lookup answered nothing is a failure   *)
(* of that record alone: when pushOutbox returns, the record is among the failed ones and *)
(* still in the Outbox, the remote table holds no row sent without a tenant, and every    *)
(* other record of the batch has had its iteration.                                       *)
C16_TenantUnresolved ==
  \A f \in Flows : PushReturned(f) =>
    /\ \A r \in Ended(f, {"notenant"}) :
         /\ r \in Ended(f, {"err", "throw"})
         /\ r \in Range(outbox)
         /\ \A row \in remote : row.client_ref = r.clientRef => row.tenant_id # Null
    /\ \A r \in Range(pre[f]) : \E p \in insRes[f] : p[1] = r.localId

(* C17: with a session, pushOutbox over an Outbox of N records (N = 0 included) returns   *)
(* both pushed and failed, with pushed + failed = N, pushed the number of records that    *)
(* left the Outbox and failed the length of the Outbox afterwards.                        *)
C17_Accounting ==
  \A f \in Flows :
    (pc[f] = "pullSession" /\ pushRes[f].reason = "none") =>
      IF pushRes[f].failed = Null
      THEN FALSE
      ELSE /\ pushRes[f].n + pushRes[f].failed[1] = Len(pre[f])
           /\ pushRes[f].n = Len(pre[f]) - Len(outbox)
           /\ pushRes[f].failed[1] = Len(outbox)

(* C18: once the session stays, inserts are accepted or answer duplicate key and syncAll  *)
(* keeps being triggered, every record in the Outbox eventually has left the Outbox and   *)
(* is in the remote table; a record that failed in one cycle is retried in the next.      *)
C18_EventualDelivery ==
  \A n \in 1..MaxRec :
    (healed /\ ClientRefOf(n) \in OutboxRefs)
      ~> (ClientRefOf(n) \notin OutboxRefs /\ RemoteHas(ClientRefOf(n)))

\* after the faults ended, a retry got duplicate key for a record an earlier cycle had
\* left queued, and removed it
C18_Witness ==
  /\ healed /\ PushReturned("net")
  /\ \E r \in Ended("net", {"dup"}) : r.clientRef \notin OutboxRefs /\ RemoteHas(r.clientRef)

(* C19: synced means remotely accepted: a History entry without serverId is synced only   *)
(* if the remote table holds a row with its clientRef; and once pushOutbox has returned,  *)
(* the History entry of every record it confirmed (success or duplicate key) is synced    *)
(* and carries the session user as userId.                                                *)
C19_SyncedMeansAccepted ==
  /\ \A i \in 1..Len(history) :
       (history[i].serverId = Null /\ history[i].synced) => RemoteHas(history[i].clientRef)
  /\ \A f \in Flows : PushReturned(f) =>
       \A r \in Ended(f, {"ok", "dup"}) :
         \A i \in 1..Len(history) :
           history[i].localId = r.localId => (history[i].synced /\ history[i].userId = U1)

\* pushOutbox has confirmed a record and its History entry is marked
C19_Witness ==
  /\ PushReturned("net")
  /\ \E r \in Ended("net", {"ok"}) :
       \E i \in 1..Len(history) : history[i].localId = r.localId /\ history[i].synced

(* C20: a failing record does not abort the batch: when pushOutbox returns, the insert    *)
(* has been attempted for every record it read, those after a failed one included.        *)
C20_BatchNotAborted ==
  \A f \in Flows : PushReturned(f) =>
    \A r \in Range(pre[f]) :
      \E p \in insRes[f] : p[1] = r.localId /\ p[2] \in {"ok", "dup", "err", "throw"}

\* the record pushed first failed and the one after it was accepted
C20_Witness ==
  /\ PushReturned("net") /\ Len(pre["net"]) = 2
  /\ <<pre["net"][2].localId, "err">> \in insRes["net"]
  /\ <<pre["net"][1].localId, "ok">> \in insRes["net"]

\* the iteration of pushOutbox for this record has reached its insert
Attempted(f, r) == \E p \in insRes[f] : p[1] = r.localId /\ p[2] \in {"ok", "dup", "err", "throw"}

C22_Changed(f) ==
  /\ Len(history') = Len(history)
  /\ \A i \in 1..Len(history) :
       \/ history'[i] = history[i]
       \/ /\ history'[i] = [history[i] EXCEPT !.synced = TRUE, !.userId = U1]
          /\ \E r \in Ended(f, {"ok", "dup"}) : r.localId = history[i].localId

C22_PushTouchesOnlyMarks ==
  [][\A f \in Flows : (pc[f] \in PushStages /\ history' # history) => C22_Changed(f)]_vars

\* a push over two records has marked the History entry of one and left the failed one
C22_Witness ==
  /\ PushReturned("net") /\ Len(history) = 2
  /\ \E i, j \in 1..2 :
       /\ history[i].synced /\ ~history[j].synced
       /\ \E r \in Ended("net", {"err", "throw"}) : r.localId = history[j].localId

(* C23: without a session, pullServer is the one step that returns { pulled: 0, reason:   *)
(* 'no-session' }: it issues no query and writes neither History nor the Pull Watermark   *)
(* (nor anything else in storage).                                                        *)
C23_NoSessionPull ==
  [][\A f \in Flows :
       (pc[f] = "pullSession" /\ session = Null /\ pc'[f] \notin {"pullSession", "idle"})
         => /\ pullRes'[f] = PullNoSession
            /\ pc'[f] = "done"
            /\ qRes'[f] = "none" /\ data'[f] = <<>>
            /\ pers' = pers]_vars

\* pullServer has returned no-session although the remote table held a row to fetch
C23_Witness ==
  /\ pc["net"] = "done" /\ pullRes["net"] = PullNoSession
  /\ \E row \in remote : StringOf(row.id) \notin ByServerId(history)

(* C24: every pullServer whose query succeeded and that runs to its end, one that fetched *)
(* no row included, sets the Pull Watermark to the wall clock as read after the merge was *)
(* written -- not to the newest createdAt fetched; and nothing else sets the watermark.   *)
C24_WatermarkIsNow ==
  [][/\ \A f \in Flows :
          (pc[f] = "pullMark" /\ pc'[f] = "done" /\ ~syncRes'[f].error)
            => lastPulledAt' = <<clock>>
     /\ lastPulledAt' # lastPulledAt
          => \E f \in Flows : pc[f] = "pullMark" /\ lastPulledAt' = <<clock>>]_vars

\* a pull that fetched only a row older than the clock has set the watermark to the clock
C24_Witness ==
  /\ pc["net"] = "done" /\ pullRes["net"] = PullResult(1)
  /\ lastPulledAt = <<clock>>
  /\ \A row \in remote : row.created_at < clock

\* a pull that fetched no row has set the watermark
C24_WitnessEmpty ==
  /\ pc["net"] = "done" /\ pullRes["net"] = PullResult(0) /\ syncRes["net"].state = "resolved"
  /\ remote = {} /\ lastPulledAt = <<clock>>

(* C25: the pull window is inclusive: a successful query of pullServer returns exactly    *)
(* the remote rows with created_at >= the stored Pull Watermark (the epoch when none is   *)
(* stored), a row created at the watermark included; and when the merge has been written, *)
(* every fetched row has an entry with its serverId in History.                           *)
C25_Fetched ==
  \A f \in Flows :
    (pc[f] = "pullQuery" /\ qRes'[f] = "rows") =>
      /\ since[f] = SinceOf(lastPulledAt)
      /\ Range(data'[f]) = {r \in remote : r.created_at >= SinceOf(lastPulledAt)}

C25_Merged ==
  \A f \in Flows : pc[f] = "pullMark" =>
    \A i \in 1..Len(data[f]) : StringOf(data[f][i].id) \in ByServerId(history)

C25_InclusiveWindow == []C25_Merged /\ [][C25_Fetched]_vars

\* a row created exactly at the stored watermark has been fetched and merged
C25_Witness ==
  /\ pc["net"] = "pullMark" /\ lastPulledAt # Null /\ added["net"] > 0
  /\ \E i \in 1..Len(data["net"]) :
       /\ data["net"][i].created_at = lastPulledAt[1]
       /\ \E k \in 1..Len(history) : history[k].serverId = StringOf(data["net"][i].id)

(* C26: pullServer adds to History one entry for each fetched row whose serverId History  *)
(* did not hold, and nothing else, and returns their number as pulled; so a pull that     *)
(* fetches no new row returns pulled = 0 and leaves the set of History entries as it was. *)
C26_NewIn(f) == {i \in 1..Len(data[f]) : StringOf(data[f][i].id) \notin ByServerId(history)}

C26_Merge ==
  \A f \in Flows :
    (pc[f] = "pullWrite" /\ pc'[f] = "pullMark") =>
      /\ added'[f] = Cardinality(C26_NewIn(f))
      /\ Len(history') = Len(history) + added'[f]
      /\ \A e \in Range(history) : e \in Range(history')
      /\ \A e \in Range(history') :
           e \in Range(history) \/ \E i \in C26_NewIn(f) : e.serverId = StringOf(data[f][i].id)
      /\ C26_NewIn(f) = {} => (added'[f] = 0 /\ Range(history') = Range(history))

C26_Return ==
  \A f \in Flows :
    (pc[f] = "pullMark" /\ pc'[f] = "done" /\ ~syncRes'[f].error) => pullRes'[f].n = added[f]

C26_PullCount == [][C26_Merge /\ C26_Return]_vars

\* a second pull fetched again the row it already had, and added nothing
C26_Witness ==
  /\ pc["net"] = "done" /\ pullRes["net"] = PullResult(0) /\ syncRes["net"].state = "resolved"
  /\ lastPulledAt # Null /\ remote # {}
  /\ \A row \in remote : StringOf(row.id) \in ByServerId(history) /\ row.created_at = lastPulledAt[1]

(* C27: every History entry with a serverId is synced and has the localId 'srv-' followed *)
(* by that serverId, so a remote row always maps to the same local identity.              *)
C27_PulledShape ==
  \A i \in 1..Len(history) :
    history[i].serverId # Null =>
      (history[i].synced /\ history[i].localId = SrvOf(history[i].serverId))

\* History holds a pulled entry next to a local one
C27_Witness ==
  \E i, j \in 1..Len(history) : history[i].serverId # Null /\ history[j].serverId = Null

(* C28: when pullServer has written its merge, the persisted History is ordered by        *)
(* createdAt, newest first: each entry's createdAt is >= that of the entry after it.      *)
C28_SortedDescending ==
  \A f \in Flows : pc[f] = "pullMark" =>
    \A i \in 1..(Len(history) - 1) : history[i].createdAt >= history[i + 1].createdAt

\* a pulled row, pushed at the end of History, has been sorted to before an older entry
C28_Witness ==
  /\ pc["net"] = "pullMark" /\ added["net"] > 0
  /\ \E i \in 1..(Len(history) - 1) :
       /\ history[i].serverId # Null
       /\ history[i].createdAt > history[i + 1].createdAt
       /\ \E k \in 1..Len(data["net"]) : StringOf(data["net"][k].id) = history[i].serverId

\* the stage of syncAll a position belongs to: 1 migrator, 2 pushOutbox, 3 pullServer
StageOf(p) ==
  IF p \in {"purgeRead", "purgeRemove", "purgeSet"} THEN 1
  ELSE IF p \in PushStages THEN 2
  ELSE IF p \in {"pullSession", "pullSince", "pullQuery", "pullRead", "pullWrite", "pullMark"} THEN 3
  ELSE 0

(* C29: the stages of one syncAll run strictly in sequence: it starts in the migrator,    *)
(* enters pushOutbox only from the migrator and pullServer only from pushOutbox, and      *)
(* never steps back to an earlier stage.                                                  *)
C29_StagesInOrder ==
  [][\A f \in Flows :
       (pc'[f] # pc[f] /\ StageOf(pc'[f]) # 0) =>
         \/ StageOf(pc'[f]) = StageOf(pc[f])
         \/ StageOf(pc'[f]) = StageOf(pc[f]) + 1]_vars

\* a syncAll that removed the legacy keys and pushed a record is in pullServer
C29_Witness ==
  /\ pc["net"] = "pullSince" /\ pushRes["net"].n > 0
  /\ cleaned /\ lastPulledAt = Null

(* C30: the legacy keys are deleted at most once and the flag is set at most once per     *)
(* installation: no multiRemove runs after one has run, and no setItem of the flag runs   *)
(* when the flag is set -- two syncAll started by near-simultaneous triggers included.    *)
C30_PurgedOnce ==
  [][\A f \in Flows :
       /\ (pc[f] = "purgeRemove" /\ pc'[f] = "purgeSet") => legacy = LEGACY_KEYS
       /\ (pc[f] = "purgeSet" /\ pc'[f] = "pushSession") => ~cleaned]_vars

\* the positions of a syncAll that lie inside purgeLegacyArtifactsOnce
PurgeStages == {"purgeRead", "purgeRemove", "purgeSet"}

(* C31: no step of the sync engine unsets the flag SYNC_CLEANED_v1, and a step of the     *)
(* migrator changes nothing in storage but the four deprecated keys, which its           *)
(* multiRemove deletes, and the flag, which its setItem sets: History, the Outbox and     *)
(* the Pull Watermark stay as they were.                                                  *)
C31_MigratorFootprint ==
  [][/\ cleaned => cleaned'
     /\ \A f \in Flows : pc[f] \in PurgeStages =>
          /\ outbox' = outbox /\ history' = history /\ lastPulledAt' = lastPulledAt
          /\ (pc[f] = "purgeRemove" /\ pc'[f] = "purgeSet") =>
               (legacy' = legacy \ LEGACY_KEYS /\ cleaned' = cleaned)
          /\ (pc[f] = "purgeSet" /\ pc'[f] = "pushSession") =>
               (cleaned' /\ legacy' = legacy)
          /\ pc'[f] \notin {"purgeSet", "pushSession"} =>
               (legacy' = legacy /\ cleaned' = cleaned)]_vars

\* the migrator has run over a store that held a queued record, and a later pass found the
\* flag still set
C31_Witness ==
  /\ pc["net"] = "pushSession" /\ cleaned /\ legacy = {}
  /\ Len(outbox) > 0 /\ Len(history) > 0 /\ lastPulledAt # Null

(* C32: a multiRemove that fails leaves the flag unset, so that a later pass deletes the   *)
(* keys and sets the flag; and the syncAll whose migrator failed still goes on to          *)
(* pushOutbox (and from there to pullServer).                                              *)
C32_DeletionFailureRecoverable ==
  [][\A f \in Flows :
       (pc[f] = "purgeRemove" /\ pc'[f] \notin {"purgeRemove", "purgeSet", "idle"})
         => (~cleaned' /\ pc'[f] = "pushSession")]_vars

\* the positions of a syncAll that lie inside pullServer
PullStages == {"pullSession", "pullSince", "pullQuery", "pullRead", "pullWrite", "pullMark"}

(* C33: no step of pushOutbox changes the Pull Watermark and no step of pullServer        *)
(* changes the Outbox, however the step ends; the watermark changes only in a step of     *)
(* pullServer, and while a syncAll runs the Outbox changes only in a step of pushOutbox.  *)
C33_WritersApart ==
  [][/\ \A f \in Flows :
          /\ pc[f] \in PushStages => lastPulledAt' = lastPulledAt
          /\ pc[f] \in PullStages => outbox' = outbox
     /\ lastPulledAt' # lastPulledAt => \E f \in Flows : pc[f] \in PullStages
     /\ (outbox' # outbox /\ ~AllIdle) => \E f \in Flows : pc[f] \in PushStages]_vars

\* a syncAll has removed a record from the Outbox in its push and set the watermark in its
\* pull
C33_Witness ==
  /\ pc["net"] = "done" /\ pushRes["net"].n > 0 /\ pullRes["net"] = PullResult(0)
  /\ outbox = <<>> /\ lastPulledAt = <<clock>> /\ remote # {}

(* C35: with two overlapping syncAll no update of History is lost: an entry that is       *)
(* marked synced stays in History and stays marked, and an entry a pull has written stays *)
(* in History, whatever either invocation writes next.                                    *)
C35_NoLostHistoryUpdate ==
  [][\A i \in 1..Len(history) :
       /\ history[i].synced =>
            \E j \in 1..Len(history') :
              history'[j].localId = history[i].localId /\ history'[j].synced
       /\ history[i].serverId # Null =>
            \E j \in 1..Len(history') : history'[j].serverId = history[i].serverId]_vars

(* C36: the push component of the value syncAll resolves with is the value pushOutbox     *)
(* returned in that invocation, also when pullServer threw afterwards.                    *)
C36_PushReported ==
  \A f \in Flows :
    (pc[f] = "done" /\ syncRes[f].state = "resolved" /\ pushRes[f] # NoRes)
      => syncRes[f].push = pushRes[f]

(* ======================= attachSyncListeners ========================== *)
\* what NetInfo reports: isConnected, and isInternetReachable (null while unknown)
NetStates == [isConnected : BOOLEAN, isInternetReachable : {"true", "false", "null"}]

\* what AppState reports
AppStates == {"active", "background", "inactive"}

\* variant: a connection is enough, reachable or not
NetTriggers_ConnectedOnly(state) == state.isConnected

\* if (state.isConnected && state.isInternetReachable)
NetTriggers(state) == state.isConnected /\ state.isInternetReachable = "true"

\* the record of an event: its source, what it reported, and whether a listener heard it
NoEvent == [source |-> "none", isConnected |-> FALSE, isInternetReachable |-> "null",
            appState |-> "none", heard |-> FALSE]
NetReport(state) == [NoEvent EXCEPT !.source = "net", !.isConnected = state.isConnected,
                                    !.isInternetReachable = state.isInternetReachable,
                                    !.heard = subs["net"]]
AppReport(s) == [NoEvent EXCEPT !.source = "app", !.appState = s, !.heard = subs["app"]]

\* if (s === 'active')
AppTriggers(s) == s = "active"

\* const netUnsub = NetInfo.addEventListener(...); const appSub = AppState.addEventListener(...)
Attach ==
  /\ \A f \in Flows : ~subs[f]
  /\ subs' = Fresh(TRUE)
  /\ UNCHANGED <<engine, ev, busVars, tenantVars, screenVars>>

\* the function attachSyncListeners returned: netUnsub(); appSub.remove()
Detach ==
  /\ \E f \in Flows : subs[f]
  /\ subs' = Fresh(FALSE)
  /\ UNCHANGED <<engine, ev, busVars, tenantVars, screenVars>>

\* an event reaches the listener of f, if one is registered: syncAll().catch(() => {}) runs
\* up to its first await when the listener's test passes. One syncAll runs at a time here:
\* an event that would start a second one comes after the first has settled.
Notify(f, passes) ==
  IF subs[f] /\ passes
  THEN /\ AllIdle
       /\ pc' = Set(pc, f, "purgeRead")
       /\ UNCHANGED <<pers, env, pushLoc, hist, pullLoc, results, orphaned>>
  ELSE UNCHANGED engine

NetEvent ==
  /\ \E state \in NetStates :
       /\ ev' = NetReport(state)
       /\ Notify("net", NetTriggers(state))
  /\ UNCHANGED <<subs, busVars, tenantVars, screenVars>>

AppEvent ==
  /\ \E s \in AppStates :
       /\ ev' = AppReport(s)
       /\ Notify("app", AppTriggers(s))
  /\ UNCHANGED <<subs, busVars, tenantVars, screenVars>>

NextListeners ==
  \/ Login \/ Enqueue
  \/ Attach \/ Detach \/ NetEvent \/ AppEvent
  \/ Running("net") \/ Running("app")

SpecListeners == Init /\ [][NextListeners]_vars

\* this step starts a syncAll for the listener f
Invoked(f) == pc[f] = "idle" /\ pc'[f] = "purgeRead"

\* the step is an event of this source
Reported(source) == ev'.source = source /\ (ev' # ev \/ \E f \in Flows : Invoked(f))

(* C34: a network event starts syncAll exactly when its listener is registered and the    *)
(* state reported is connected and internet-reachable, an app-state event exactly when    *)
(* its listener is registered and the new state is 'active'; nothing else starts syncAll, *)
(* so after the detach function was called no event starts one.                           *)
C34_Triggers ==
  [][/\ Reported("net") =>
          /\ Invoked("net") <=>
               (subs["net"] /\ ev'.isConnected /\ ev'.isInternetReachable = "true")
          /\ ~Invoked("app")
     /\ Reported("app") =>
          /\ Invoked("app") <=> (subs["app"] /\ ev'.appState = "active")
          /\ ~Invoked("net")
     /\ \A f \in Flows : Invoked(f) => (subs[f] /\ ev'.source = f)]_vars

\* an event has started a syncAll that pushed a record; later, after the detach, a
\* connected and reachable network state was reported to no listener and nothing started
C34_Witness ==
  /\ \A f \in Flows : ~subs[f]
  /\ ev.source = "net" /\ ev.isConnected /\ ev.isInternetReachable = "true" /\ ~ev.heard
  /\ AllIdle /\ outbox = <<>> /\ made = 1

(* ============================ the event bus =========================== *)
\* bus.on calls per event and handler whose unsubscribe function is still to be called
MaxOn == 2

\* what is emitted
Payloads == {"p1", "p2"}

\* variant: the handlers of an event are kept in an array
Added_Push(set, h) == Append(set, h)

\* Set.prototype.add: an element already in the Set is not added again
Added(set, h) == IF h \in Range(set) THEN set ELSE Append(set, h)

\* Set.prototype.delete
Deleted(set, h) == SelectSeq(set, LAMBDA x : x # h)

\* variant: emit calls the handlers of every event
Receivers_OfAnyEvent(event) ==
  LET all == {h \in Handlers : \E e \in Events : h \in Range(listeners[e])}
  IN  IF all = {} THEN <<>> ELSE CHOOSE q \in [1..Cardinality(all) -> all] : Range(q) = all

\* listeners[event]?.forEach: the handlers emit calls, in the order of the Set
Receivers(event) == listeners[event]

\* on(event, handler): (listeners[event] ??= new Set()).add(handler); returns the unsubscribe
On ==
  /\ \E e \in Events, h \in Handlers :
       /\ unsubs[<<e, h>>] < MaxOn
       /\ listeners' = [listeners EXCEPT ![e] = Added(@, h)]
       /\ live' = live \cup {<<e, h>>}
       /\ unsubs' = [unsubs EXCEPT ![<<e, h>>] = @ + 1]
  /\ UNCHANGED <<engine, triggers, emitted, delivered, tenantVars, screenVars>>

\* () => listeners[event]?.delete(handler), each returned function called once
Off ==
  /\ \E e \in Events, h \in Handlers :
       /\ unsubs[<<e, h>>] > 0
       /\ listeners' = [listeners EXCEPT ![e] = Deleted(@, h)]
       /\ live' = live \ {<<e, h>>}
       /\ unsubs' = [unsubs EXCEPT ![<<e, h>>] = @ - 1]
  /\ UNCHANGED <<engine, triggers, emitted, delivered, tenantVars, screenVars>>

\* emit(event, payload): listeners[event]?.forEach(fn => fn(payload))
Emit ==
  /\ \E e \in Events, p \in Payloads :
       /\ emitted' = <<e, p>>
       /\ delivered' = [i \in 1..Len(Receivers(e)) |-> <<Receivers(e)[i], p>>]
  /\ UNCHANGED <<engine, triggers, listeners, live, unsubs, tenantVars, screenVars>>

NextBus == On \/ Off \/ Emit

SpecBus == Init /\ [][NextBus]_vars

(* C40: an emit calls each handler that is subscribed to its event exactly once, with the *)
(* payload, and calls nothing else -- no handler of another event, no handler whose       *)
(* unsubscribe function has been called since it was registered, and a handler registered *)
(* twice only once.                                                                       *)
C40_Delivery ==
  [][(emitted' # emitted \/ delivered' # delivered) =>
       /\ \A i \in 1..Len(delivered') : delivered'[i][2] = emitted'[2]
       /\ \A h \in Handlers :
            Cardinality({i \in 1..Len(delivered') : delivered'[i][1] = h})
              = IF <<emitted'[1], h>> \in live THEN 1 ELSE 0]_vars

\* h1 is registered twice for scan:insert and was called once; h2, registered for
\* scan:delete, and for scan:insert twice with one of the two unsubscribe functions called
\* since, was not called
C40_Witness ==
  /\ unsubs[<<"scan:insert", "h1">>] = 2
  /\ unsubs[<<"scan:insert", "h2">>] = 1 /\ "h2" \notin Range(listeners["scan:insert"])
  /\ listeners["scan:delete"] = <<"h2">>
  /\ emitted = <<"scan:insert", "p1">> /\ delivered = << <<"h1", "p1">> >>

(* ===================== resolveTenant.ensureTenantId =================== *)
\* a second tenant
T2 == <<"t", 2>>
Tenants == {T1, T2}

\* the roles a membership row can carry; "viewer" is none of the three the code knows
Roles == {"owner", "admin", "member", "viewer"}

\* priority[role] ?? 0
Priority(role) ==
  IF role = "owner" THEN 3 ELSE IF role = "admin" THEN 2 ELSE IF role = "member" THEN 1 ELSE 0

\* variant: the rows are taken as the query answered them
SortByRole_AsFetched(ms) == ms

\* mems.sort((a, b) => (priority[b.role] ?? 0) - (priority[a.role] ?? 0)): highest priority
\* first, rows of equal priority in the order the query answered them
SortByRole(ms) ==
  LET f == CHOOSE g \in Permutations(1..Len(ms)) :
             \A i, j \in 1..Len(ms) : i < j =>
               \/ Priority(ms[g[i]].role) > Priority(ms[g[j]].role)
               \/ (Priority(ms[g[i]].role) = Priority(ms[g[j]].role) /\ g[i] < g[j])
  IN  [i \in 1..Len(ms) |-> ms[f[i]]]

\* the rows of the user, in any order: the query has no order clause
MembershipRows ==
  {q \in [1..Cardinality(memberships) -> memberships] : Range(q) = memberships}

\* the user is given a membership of a tenant
Join ==
  /\ \E t \in Tenants, r \in Roles :
       /\ \A m \in memberships : m.tenant_id # t
       /\ memberships' = memberships \cup {[tenant_id |-> t, role |-> r]}
  /\ UNCHANGED <<engine, triggers, busVars, tenantStore, ensurePc, mems, ensureRes, lastRet,
                 screenVars>>

\* the call ends
Ends(outcome) ==
  /\ ensurePc' = "done"
  /\ ensureRes' = outcome

\* a screen calls ensureTenantId()
EnsureStart ==
  /\ ensurePc = "idle"
  /\ ensurePc' = "getTenant"
  /\ UNCHANGED <<engine, triggers, busVars, tenantStore, memberships, mems, ensureRes,
                 lastRet, screenVars>>

\* const existing = await getTenantId(); if (existing) return existing
EnsureGetTenant ==
  /\ ensurePc = "getTenant"
  /\ \/ Ends(Threw)
     \/ IF tenantStore # Null
        THEN Ends(Returned(tenantStore))
        ELSE ensurePc' = "getUser" /\ UNCHANGED ensureRes
  /\ UNCHANGED <<engine, triggers, busVars, tenantStore, memberships, mems, lastRet,
                 screenVars>>

\* const { data: userRes, error: userErr } = await supabase.auth.getUser();
\* if (userErr) throw userErr; if (!userId) throw new Error(...)
EnsureGetUser ==
  /\ ensurePc = "getUser"
  /\ \/ Ends(Threw)
     \/ IF session = Null
        THEN Ends(Threw)
        ELSE ensurePc' = "query" /\ UNCHANGED ensureRes
  /\ UNCHANGED <<engine, triggers, busVars, tenantStore, memberships, mems, lastRet,
                 screenVars>>

\* const { data: mems, error } = await supabase.from('memberships')...;
\* if (error) throw error; if (!mems || mems.length === 0) throw new Error(...); mems.sort(...)
EnsureQuery ==
  /\ ensurePc = "query"
  /\ \/ Ends(Threw) /\ UNCHANGED mems
     \/ \E q \in MembershipRows :
          IF Len(q) = 0
          THEN Ends(Threw) /\ UNCHANGED mems
          ELSE /\ mems' = SortByRole(q)
               /\ ensurePc' = "store"
               /\ UNCHANGED ensureRes
  /\ UNCHANGED <<engine, triggers, busVars, tenantStore, memberships, lastRet, screenVars>>

\* const id = mems[0].tenant_id; await setTenantId(id); return id
EnsureStore ==
  /\ ensurePc = "store"
  /\ mems' = <<>>
  /\ \/ Ends(Threw) /\ UNCHANGED tenantStore
     \/ /\ tenantStore' = mems[1].tenant_id
        /\ Ends(Returned(mems[1].tenant_id))
  /\ UNCHANGED <<engine, triggers, busVars, memberships, lastRet, screenVars>>

\* the caller has the outcome
EnsureFinish ==
  /\ ensurePc = "done"
  /\ ensurePc' = "idle"
  /\ ensureRes' = NoOutcome
  /\ lastRet' = IF ensureRes.kind = "returned" THEN ensureRes.id ELSE lastRet
  /\ UNCHANGED <<engine, triggers, busVars, tenantStore, memberships, mems, screenVars>>

Ensure ==
  \/ EnsureGetTenant \/ EnsureGetUser \/ EnsureQuery \/ EnsureStore \/ EnsureFinish

NextResolve ==
  \/ Login \/ Logout \/ Join
  \/ EnsureStart \/ Ensure

SpecResolve == Init /\ [][NextResolve]_vars

\* the rows of highest priority among those the query answered
TopRows(ms) == {i \in 1..Len(ms) : \A j \in 1..Len(ms) : Priority(ms[j].role) <= Priority(ms[i].role)}

(* C37: ensureTenantId returns the stored tenant id, without asking the remote, when one  *)
(* is stored; with none stored it throws when no user is logged in or the user has no     *)
(* membership; otherwise what it returns is the tenant of a membership of highest role    *)
(* priority among those fetched (owner > admin > member > unknown) and is stored, so that *)
(* a later call returns the same id.                                                      *)
C37_Step ==
  /\ (ensurePc = "getTenant" /\ tenantStore # Null) =>
       (ensurePc' = "getTenant" \/ ensureRes' = Threw \/ ensureRes' = Returned(tenantStore))
  /\ (ensurePc = "getUser" /\ session = Null) => (ensurePc' = "getUser" \/ ensureRes' = Threw)
  /\ (ensurePc = "query" /\ memberships = {}) => (ensurePc' = "query" \/ ensureRes' = Threw)
  /\ (ensurePc = "query" /\ ensurePc' = "store") =>
       (Range(mems') = memberships /\ 1 \in TopRows(mems'))
  /\ (ensurePc = "store" /\ ensureRes'.kind = "returned") =>
       /\ \E i \in TopRows(mems) : ensureRes'.id = mems[i].tenant_id
       /\ tenantStore' = ensureRes'.id

C37_Returned ==
  (ensurePc = "done" /\ ensureRes.kind = "returned") =>
    /\ tenantStore = ensureRes.id
    /\ lastRet # Null => ensureRes.id = lastRet

C37_StoredTenantWins == []C37_Returned /\ [][C37_Step]_vars

\* a call returned the tenant of the owner membership, fetched after a member one; a
\* membership the user was given since is not of that tenant
C37_Witness ==
  /\ ensurePc = "done" /\ lastRet = Null
  /\ \E t \in Tenants :
       /\ ensureRes = Returned(t) /\ tenantStore = t
       /\ [tenant_id |-> t, role |-> "owner"] \in memberships
       /\ \E m \in memberships : m.tenant_id # t /\ m.role = "member"

\* a second call has returned the stored id although the user now has a membership of
\* higher priority
C37_WitnessSecond ==
  /\ ensurePc = "done" /\ lastRet # Null /\ ensureRes = Returned(lastRet)
  /\ \E m, n \in memberships :
       m.tenant_id = lastRet /\ n.tenant_id # lastRet /\ Priority(n.role) > Priority(m.role)

(* ========================= the settings screen ======================== *)
\* the three startup effects of a mount have run to their end
Settled == loadPc = "done" /\ listPc \in {"off", "done"} /\ fixPc = "done"

\* setState of a component that is no longer mounted changes nothing
SetState(state, value) == IF shown THEN value ELSE state

\* effect 2 runs after the render in which user changed to a user
ListEffect(user) ==
  IF user # Null /\ user # userState
  THEN listPc' = "query" /\ seenTenant' = tenantState
  ELSE UNCHANGED <<listPc, seenTenant>>

\* the screen is mounted: effects 1 and 3 start, effect 2 returns at once (no user yet)
Mount ==
  /\ ~shown /\ ensurePc = "idle"
  /\ loadPc \in {"off", "done"} /\ listPc \in {"off", "done"} /\ fixPc \in {"off", "done"}
  /\ shown' = TRUE
  /\ userState' = Null /\ tenantState' = Null /\ tenantsState' = {}
  /\ loadPc' = "session" /\ listPc' = "off" /\ fixPc' = "ensure" /\ ensurePc' = "getTenant"
  /\ seenTenant' = Null /\ listId' = Null /\ fixT' = Null
  /\ remounted' = (chosen # Null)
  /\ UNCHANGED <<engine, triggers, busVars, tenantStore, memberships, mems, ensureRes,
                 lastRet, currentTenantId, chosen, historyVars>>

\* the screen is unmounted (the app is closed): mounted = false, alive = false
Unmount ==
  /\ shown
  /\ shown' = FALSE
  /\ UNCHANGED <<engine, triggers, busVars, tenantVars, currentTenantId, userState,
                 tenantState, tenantsState, loadPc, listPc, seenTenant, listId, fixPc, fixT,
                 chosen, remounted, historyVars>>

\* handleSignIn and onAuthStateChange: setUser(s?.user ?? null), once effect 1 is through
SignIn ==
  /\ session = Null
  /\ shown => (loadPc = "done" /\ listPc \in {"off", "done"})
  /\ session' = U1
  /\ IF shown
     THEN userState' = U1 /\ ListEffect(U1)
     ELSE UNCHANGED <<userState, listPc, seenTenant>>
  /\ UNCHANGED <<pers, remote, clock, made, healed, pc, pushLoc, hist, pullLoc, results,
                 orphaned, triggers, busVars, tenantVars, currentTenantId, shown,
                 tenantState, tenantsState, loadPc, listId, fixPc, fixT, chosen, remounted,
                 historyVars>>

\* effect 1: const { data: sess } = await getSession(); if (!mounted) return; setUser(...)
LoadSession ==
  /\ loadPc = "session"
  /\ IF shown
     THEN /\ userState' = session
          /\ ListEffect(session)
          /\ loadPc' = "saved"
     ELSE /\ loadPc' = "done"
          /\ UNCHANGED <<userState, listPc, seenTenant>>
  /\ UNCHANGED <<engine, triggers, busVars, tenantVars, currentTenantId, shown, tenantState,
                 tenantsState, listId, fixPc, fixT, chosen, remounted, historyVars>>

\* effect 1: const saved = await AsyncStorage.getItem(TENANT_KEY); if (saved) setTenantId(saved)
LoadSaved ==
  /\ loadPc = "saved"
  /\ loadPc' = "done"
  /\ tenantState' = IF currentTenantId # Null THEN SetState(tenantState, currentTenantId)
                    ELSE tenantState
  /\ UNCHANGED <<engine, triggers, busVars, tenantVars, currentTenantId, shown, userState,
                 tenantsState, listPc, seenTenant, listId, fixPc, fixT, chosen, remounted,
                 historyVars>>

\* if (!tenantId && rows.length === 1)
AutoSelects(tenantId, fetched) == tenantId = Null /\ Len(fetched) = 1

\* effect 2: the memberships query; if (!alive) return; if (error) throw error;
\* setTenants(rows); the auto-select test
ListQuery ==
  /\ listPc = "query"
  /\ \/ /\ listPc' = "done"
        /\ UNCHANGED <<tenantsState, listId>>
     \/ \E q \in MembershipRows :
          IF ~shown
          THEN listPc' = "done" /\ UNCHANGED <<tenantsState, listId>>
          ELSE /\ tenantsState' = {q[i].tenant_id : i \in 1..Len(q)}
               /\ IF AutoSelects(seenTenant, q)
                  THEN listPc' = "store" /\ listId' = q[1].tenant_id
                  ELSE listPc' = "done" /\ UNCHANGED listId
  /\ UNCHANGED <<engine, triggers, busVars, tenantVars, currentTenantId, shown, userState,
                 tenantState, loadPc, seenTenant, fixPc, fixT, chosen, remounted,
                 historyVars>>

\* effect 2: await AsyncStorage.setItem(TENANT_KEY, rows[0].id); setTenantId(rows[0].id)
ListStore ==
  /\ listPc = "store"
  /\ listPc' = "done"
  /\ \/ UNCHANGED <<currentTenantId, tenantState>>
     \/ /\ currentTenantId' = listId
        /\ tenantState' = SetState(tenantState, listId)
  /\ UNCHANGED <<engine, triggers, busVars, tenantVars, shown, userState, tenantsState,
                 loadPc, seenTenant, listId, fixPc, fixT, chosen, remounted, historyVars>>

\* effect 3: const t = await ensureTenantId(); if (t) { setTenantId(t); ... } / catch {}
FixTake ==
  /\ fixPc = "ensure" /\ ensurePc = "done"
  /\ ensurePc' = "idle" /\ ensureRes' = NoOutcome
  /\ IF ensureRes.kind = "returned"
     THEN /\ lastRet' = ensureRes.id
          /\ fixT' = ensureRes.id
          /\ tenantState' = SetState(tenantState, ensureRes.id)
          /\ fixPc' = "set"
     ELSE /\ fixPc' = "done"
          /\ UNCHANGED <<lastRet, fixT, tenantState>>
  /\ UNCHANGED <<engine, triggers, busVars, tenantStore, memberships, mems, currentTenantId,
                 shown, userState, tenantsState, loadPc, listPc, seenTenant, listId, chosen,
                 remounted, historyVars>>

\* effect 3: await AsyncStorage.setItem(TENANT_KEY, t)
FixStore ==
  /\ fixPc = "set"
  /\ fixPc' = "done"
  /\ \/ UNCHANGED currentTenantId
     \/ currentTenantId' = fixT
  /\ UNCHANGED <<engine, triggers, busVars, tenantVars, shown, userState, tenantState,
                 tenantsState, loadPc, listPc, seenTenant, listId, fixT, chosen, remounted,
                 historyVars>>

\* await AsyncStorage.setItem(TENANT_KEY, id); setTenantId(id)
Apply(id) ==
  /\ shown /\ loadPc = "done"
  /\ currentTenantId' = id
  /\ tenantState' = id
  /\ chosen' = id
  /\ remounted' = FALSE
  /\ UNCHANGED <<engine, triggers, busVars, tenantVars, shown, userState, tenantsState,
                 loadPc, listPc, seenTenant, listId, fixPc, fixT, historyVars>>

\* applyTenant(id): a tenant of the list is pressed
ApplyTenant == \E id \in tenantsState : Apply(id)

\* applyManualTenant(): the id typed in
ApplyManualTenant == \E id \in Tenants : Apply(id)

NextSettings ==
  \/ SignIn \/ Join \/ Mount \/ Unmount
  \/ LoadSession \/ LoadSaved \/ ListQuery \/ ListStore
  \/ EnsureGetTenant \/ EnsureGetUser \/ EnsureQuery \/ EnsureStore
  \/ FixTake \/ FixStore
  \/ ApplyTenant \/ ApplyManualTenant

SpecSettings == Init /\ [][NextSettings]_vars

(* C38: a tenant chosen in Settings stays chosen: when the screen has been mounted again  *)
(* after applyTenant or applyManualTenant stored an id and the three startup effects have *)
(* run, the id stored under 'currentTenantId' is still that id, and ensureTenantId, when  *)
(* it returned an id to the correcting effect, returned that id.                          *)
C38_ChosenTenantStays ==
  (shown /\ remounted /\ Settled) =>
    /\ currentTenantId = chosen
    /\ fixT # Null => fixT = chosen

(* ========================= the history screen ========================= *)
\* const PAGE = 50, scaled
PAGE == 2
\* ids the table hands out
MaxScans == 3
\* requests of the screen in flight at a time, and rows it holds
MaxReplies == 2
MaxRows == 3
\* events on their way at a time
MaxNotices == 2

Scan(n, v) == [id |-> n, value |-> v]

\* .order('created_at', { ascending: false }).limit(PAGE): ids are handed out in time order
Page(found) ==
  LET n == IF Cardinality(found) < PAGE THEN Cardinality(found) ELSE PAGE
  IN  CHOOSE q \in [1..n -> found] :
        /\ \A i \in 1..(n - 1) : q[i].id > q[i + 1].id
        /\ \A r \in found : (\A i \in 1..n : q[i] # r) => (\A i \in 1..n : q[i].id > r.id)

Has(prev, n) == \E i \in 1..Len(prev) : prev[i].id = n

\* prev.some(x => x.id === r.id) ? prev : [r, ...prev].slice(0, PAGE)
Inserted(prev, r) ==
  IF Has(prev, r.id) THEN prev
  ELSE LET grown == <<r>> \o prev
       IN  SubSeq(grown, 1, IF Len(grown) < PAGE THEN Len(grown) ELSE PAGE)

\* prev.map(x => (x.id === r.id ? r : x))
Updated(prev, r) == [i \in 1..Len(prev) |-> IF prev[i].id = r.id THEN r ELSE prev[i]]

\* prev.filter(x => x.id !== id)
Filtered(prev, n) == SelectSeq(prev, LAMBDA x : x.id # n)

\* [...prev, ...(data ?? [])]
Appended(prev, got) == prev \o got

Notice(type, r) == [type |-> type, row |-> r]

BusTypes == Events
RealtimeTypes == {"INSERT", "UPDATE", "DELETE"}

\* each channel hands its events over in the order they were sent
IsNextOf(types, i) ==
  /\ i \in 1..Len(notices)
  /\ notices[i].type \in types
  /\ \A j \in 1..(i - 1) : notices[j].type \notin types

Taken(i) == [j \in 1..(Len(notices) - 1) |-> IF j < i THEN notices[j] ELSE notices[j + 1]]
Reply(kind, got) == [kind |-> kind, data |-> got]

\* scan.tsx: the insert into scans is answered with the new row, which is then sent on
\* the bus; the table reports the INSERT on the realtime channel
ScanInsert ==
  /\ \E n \in 1..MaxScans :
       /\ \A r \in scanTable : r.id < n
       /\ \A i \in 1..Len(notices) : notices[i].row.id < n
       /\ Len(notices) + 2 <= MaxNotices
       /\ scanTable' = scanTable \cup {Scan(n, "a")}
       /\ notices' = notices \o <<Notice("INSERT", Scan(n, "a")),
                                   Notice("scan:insert", Scan(n, "a"))>>
  /\ UNCHANGED <<engine, triggers, busVars, tenantVars, settingsVars, rowsState, replies>>

\* a row is changed at the server (one changed row at a time): the table reports the UPDATE
ScanUpdate ==
  /\ \E r \in scanTable :
       /\ \A x \in scanTable : x.value = "a"
       /\ Len(notices) < MaxNotices
       /\ scanTable' = (scanTable \ {r}) \cup {Scan(r.id, "b")}
       /\ notices' = Append(notices, Notice("UPDATE", Scan(r.id, "b")))
  /\ UNCHANGED <<engine, triggers, busVars, tenantVars, settingsVars, rowsState, replies>>

\* onLongPress: delete().eq('id', item.id); bus.emit('scan:delete', item.id)
LongPress ==
  /\ \E i \in 1..Len(rowsState) :
       /\ Len(notices) + 2 <= MaxNotices
       /\ scanTable' = {r \in scanTable : r.id # rowsState[i].id}
       /\ notices' = notices \o
            (IF \E r \in scanTable : r.id = rowsState[i].id
             THEN <<Notice("DELETE", rowsState[i])>> ELSE <<>>) \o
            <<Notice("scan:delete", rowsState[i])>>
  /\ UNCHANGED <<engine, triggers, busVars, tenantVars, settingsVars, rowsState, replies>>

\* bus.on('scan:insert', ...) and bus.on('scan:delete', ...)
OnBus ==
  /\ \E i \in 1..Len(notices) :
       /\ IsNextOf(BusTypes, i)
       /\ rowsState' = IF notices[i].type = "scan:insert"
                       THEN Inserted(rowsState, notices[i].row)
                       ELSE Filtered(rowsState, notices[i].row.id)
       /\ notices' = Taken(i)
  /\ UNCHANGED <<engine, triggers, busVars, tenantVars, settingsVars, scanTable, replies>>

\* the postgres_changes callback: INSERT, UPDATE, DELETE
OnRealtime ==
  /\ \E i \in 1..Len(notices) :
       /\ IsNextOf(RealtimeTypes, i)
       /\ rowsState' = CASE notices[i].type = "INSERT" -> Inserted(rowsState, notices[i].row)
                         [] notices[i].type = "UPDATE" -> Updated(rowsState, notices[i].row)
                         [] OTHER -> Filtered(rowsState, notices[i].row.id)
       /\ notices' = Taken(i)
  /\ UNCHANGED <<engine, triggers, busVars, tenantVars, settingsVars, scanTable, replies>>

\* loadInitial (mount, pull to refresh, SUBSCRIBED): the query
LoadInitial ==
  /\ Cardinality(replies) < MaxReplies
  /\ replies' = replies \cup {Reply("initial", Page(scanTable))}
  /\ UNCHANGED <<engine, triggers, busVars, tenantVars, settingsVars, rowsState, scanTable,
                 notices>>

\* loadInitial: setRows(data ?? [])
LoadInitialSet ==
  /\ \E a \in replies :
       /\ a.kind = "initial"
       /\ rowsState' = a.data
       /\ replies' = replies \ {a}
  /\ UNCHANGED <<engine, triggers, busVars, tenantVars, settingsVars, scanTable, notices>>

\* onEndReached: if (rows.length < PAGE) return; last = rows[rows.length - 1].created_at;
\* the query .lt('created_at', last)
EndReached ==
  /\ Len(rowsState) >= PAGE
  /\ Cardinality(replies) < MaxReplies
  /\ LET last == rowsState[Len(rowsState)].id
     IN  replies' = replies \cup {Reply("more", Page({r \in scanTable : r.id < last}))}
  /\ UNCHANGED <<engine, triggers, busVars, tenantVars, settingsVars, rowsState, scanTable,
                 notices>>

\* onEndReached: setRows(prev => [...prev, ...(data ?? [])])
EndReachedSet ==
  /\ \E a \in replies :
       /\ a.kind = "more"
       /\ Len(rowsState) + Len(a.data) <= MaxRows
       /\ rowsState' = Appended(rowsState, a.data)
       /\ replies' = replies \ {a}
  /\ UNCHANGED <<engine, triggers, busVars, tenantVars, settingsVars, scanTable, notices>>

NextHistory ==
  \/ ScanInsert \/ ScanUpdate \/ LongPress
  \/ OnBus \/ OnRealtime
  \/ LoadInitial \/ LoadInitialSet
  \/ EndReached \/ EndReachedSet

SpecHistory == Init /\ [][NextHistory]_vars

(* C39: the history screen never shows the same scan twice: whatever the order of initial *)
(* loads, 'scan:insert' events, realtime INSERT / UPDATE / DELETE events and load-more    *)
(* pages, rows holds no two rows with the same id.                                        *)
C39_NoScanTwice ==
  \A i, j \in 1..Len(rowsState) : rowsState[i].id = rowsState[j].id => i = j

====
